---------------------------- MODULE Spec2Model ----------------------------
(***************************************************************************)
(* CommentSentimentAnalysis (comment_sentiment.go): the hercules pipeline  *)
(* item which collects the comments of every commit per day, scores them   *)
(* in one batch and averages the confident scores of each day.             *)
(*                                                                         *)
(* Strings are sequences of one-character strings, so that len(), the      *)
(* regular expressions and strings.TrimSpace/Join act on them as the Go    *)
(* code does.  float32 values are fixed-point: a gap g stands for g/One,   *)
(* a score w for w/(2*One); NaN is the float32 not-a-number.  With these   *)
(* dyadic values every float32 sum, product and comparison of Finalize is  *)
(* exact; the quotient sum/len of line 218 is kept as the reduced fraction *)
(* (its float32 rounding is not modelled).                                 *)
(***************************************************************************)
EXTENDS Integers, Sequences, FiniteSets, TLC

VARIABLES
    MinCommentLength,   \* sent.MinCommentLength
    Gap,                \* sent.Gap
    commentsByDay,      \* sent.commentsByDay
    commitsByDay,       \* sent.commitsByDay
    phase,              \* position in the item's lifecycle
    texts,              \* Finalize: the list handed to the scorer
    weights,            \* Finalize: the scores the scorer returned
    result,             \* Finalize: the CommentSentimentResult
    nodes,              \* mergeComments: the argument
    mergedComments,     \* mergeComments: the merged runs (before filtering)
    filteredComments,   \* mergeComments: the returned list
    binary,             \* Serialize: the encoding asked for
    writer,             \* Serialize: the writer, "ok" or "failing"
    written,            \* Serialize: what the writer accepted
    err                 \* Serialize: the returned error

vars == <<MinCommentLength, Gap, commentsByDay, commitsByDay, phase,
          texts, weights, result, nodes, mergedComments,
          filteredComments, binary, writer, written, err>>

-----------------------------------------------------------------------------
(* Bounds of the model *)
MaxDay == 2         \* days are 1..MaxDay
MaxTexts == 3       \* comments accumulated per run
MaxNodes == 2       \* comment nodes per mergeComments call
MaxLine == 3        \* source lines are 1..MaxLine

(* Program constants *)
DefaultCommentSentimentCommentMinLength == 20
MinLengthFloor == 10
One == 2                            \* the float 1.0 in gap units
DefaultCommentSentimentGap == 1     \* float32(0.5) in gap units: One/2
NaN == 99                           \* the float32 NaN (no number of the grid)
NoPos == 0                          \* a nil StartPosition / EndPosition

-----------------------------------------------------------------------------
(* Characters and the package's regular expressions *)

LowerSeq == <<"a","b","c","d","e","f","g","h","i","j","k","l","m",
              "n","o","p","q","r","s","t","u","v","w","x","y","z">>
UpperSeq == <<"A","B","C","D","E","F","G","H","I","J","K","L","M",
              "N","O","P","Q","R","S","T","U","V","W","X","Y","Z">>
LowerCase == {LowerSeq[i] : i \in 1..26}
UpperCase == {UpperSeq[i] : i \in 1..26}
Digits == {"0","1","2","3","4","5","6","7","8","9"}
Letters == LowerCase \cup UpperCase
Alnum == Letters \cup Digits

\* \s of the regexp package; strings.TrimSpace trims the same ASCII characters
Whitespace == {" ", "\t", "\n", "\r", "\f"}

\* the characters filteredCharsRE does not match
AllowedChars == Alnum \cup {"-", "_", ":", ";", ",", ".", "/", "?", "!", "#",
                            "&", "%", "+", "*", "=", "\n", " ", "\t", "(", ")"}

IdentStart == Letters \cup {"_"}
IdentChar == IdentStart \cup Digits

ToLower(c) ==
    IF c \in UpperCase
    THEN LowerSeq[CHOOSE i \in 1..26 : UpperSeq[i] = c]
    ELSE c

RECURSIVE RunLen(_, _, _)
\* the length of the longest run of characters of class cls from s[i] on
RunLen(s, i, cls) ==
    IF i <= Len(s) /\ s[i] \in cls THEN 1 + RunLen(s, i + 1, cls) ELSE 0

RECURSIVE TrimLeft(_)
TrimLeft(s) ==
    IF s # <<>> /\ Head(s) \in Whitespace THEN TrimLeft(Tail(s)) ELSE s

RECURSIVE TrimRight(_)
TrimRight(s) ==
    IF s # <<>> /\ s[Len(s)] \in Whitespace
    THEN TrimRight(SubSeq(s, 1, Len(s) - 1))
    ELSE s

\* strings.TrimSpace
TrimSpace(s) == TrimRight(TrimLeft(s))

RECURSIVE Join(_, _)
\* strings.Join
Join(strs, sep) ==
    IF strs = <<>> THEN <<>>
    ELSE IF Len(strs) = 1 THEN strs[1]
    ELSE strs[1] \o sep \o Join(Tail(strs), sep)

\* filteredFirstCharRE.MatchString(comment[:1])
FilteredFirstChar(s) == s[1] \notin Alnum

\* functionNameRE matched at s[i]: the index of the match's last character, 0
\* when there is no match.  \s*, then an identifier, then "()": the classes
\* are disjoint, so the greedy runs are the only way to match.
FunctionNameEnd(s, i) ==
    LET j == i + RunLen(s, i, Whitespace)
        k == j + RunLen(s, j, IdentChar)
    IN  IF /\ j <= Len(s)
           /\ s[j] \in IdentStart
           /\ k + 1 <= Len(s)
           /\ s[k] = "("
           /\ s[k + 1] = ")"
        THEN k + 1
        ELSE 0

RECURSIVE RemoveFunctionNamesFrom(_, _)
RemoveFunctionNamesFrom(s, i) ==
    IF i > Len(s) THEN <<>>
    ELSE IF FunctionNameEnd(s, i) # 0
         THEN RemoveFunctionNamesFrom(s, FunctionNameEnd(s, i) + 1)
         ELSE <<s[i]>> \o RemoveFunctionNamesFrom(s, i + 1)

\* functionNameRE.ReplaceAllString(comment, "")
RemoveFunctionNames(s) == RemoveFunctionNamesFrom(s, 1)

\* filteredCharsRE.ReplaceAllString(comment, "")
RemoveFilteredChars(s) == SelectSeq(s, LAMBDA c : c \in AllowedChars)

RECURSIVE CollapseFrom(_, _)
CollapseFrom(s, i) ==
    IF i > Len(s) THEN <<>>
    ELSE IF s[i] \in Whitespace
         THEN <<" ">> \o CollapseFrom(s, i + RunLen(s, i, Whitespace))
         ELSE <<s[i]>> \o CollapseFrom(s, i + 1)

\* whitespaceRE.ReplaceAllString(comment, " ")
CollapseWhitespace(s) == CollapseFrom(s, 1)

\* the sum of the lengths of the matches of charsRE
CharsCount(s) == Len(SelectSeq(s, LAMBDA c : c \in Letters))

\* int(float32(len(comment)) * CommentLettersRatio): 0.6 as a float32 is a
\* little above 3/5, never enough to reach the next integer
LettersThreshold(n) == (3 * n) \div 5

CopyrightSign == "(c)"      \* stands for the one character U+00A9

Copyright == <<"c","o","p","y","r","i","g","h","t">>

\* licenseRE.MatchString: "(?i)[li[cs]en[cs][ei]|copyright|(c)-sign"; the
\* leading class is the characters l, i, [, c, s
LicenseMatch(s) ==
    \/ \E i \in 1..(Len(s) - 4) :
          /\ ToLower(s[i]) \in {"l", "i", "[", "c", "s"}
          /\ ToLower(s[i + 1]) = "e"
          /\ ToLower(s[i + 2]) = "n"
          /\ ToLower(s[i + 3]) \in {"c", "s"}
          /\ ToLower(s[i + 4]) \in {"e", "i"}
    \/ \E i \in 1..(Len(s) - 8) :
          \A k \in 1..9 : ToLower(s[i + k - 1]) = Copyright[k]
    \/ \E i \in 1..Len(s) : s[i] = CopyrightSign

-----------------------------------------------------------------------------
(* mergeComments: lines 278-348.  A node is [Token, StartLine, EndLine];    *)
(* NoPos stands for a nil position.                                        *)

RECURSIVE SortedSeq(_)
\* sort.Ints over a set of distinct integers
SortedSeq(S) ==
    IF S = {} THEN <<>>
    ELSE LET m == CHOOSE x \in S : \A y \in S : x <= y
         IN  <<m>> \o SortedSeq(S \ {m})

\* lines 280-297: the start lines of the nodes which have a start position
LineNums(ns) ==
    SortedSeq({ns[i].StartLine : i \in {k \in 1..Len(ns) : ns[k].StartLine # NoPos}})

\* lines 286-291: the nodes of one line, in the order of the argument
LineNodes(ns, line) == SelectSeq(ns, LAMBDA n : n.StartLine = line)

RECURSIVE MaxEnd(_, _)
\* lines 301-305: the largest end line of the line's nodes, at least the line
MaxEnd(line, lineNodes) ==
    IF lineNodes = <<>> THEN line
    ELSE LET rest == MaxEnd(line, SubSeq(lineNodes, 1, Len(lineNodes) - 1))
             last == lineNodes[Len(lineNodes)]
         IN  IF last.EndLine # NoPos /\ rest < last.EndLine
             THEN last.EndLine
             ELSE rest

RECURSIVE LineTokens(_)
\* lines 306-309: the trimmed tokens of the line's nodes which are not empty
LineTokens(lineNodes) ==
    IF lineNodes = <<>> THEN <<>>
    ELSE LET token == TrimSpace(Head(lineNodes).Token)
         IN  (IF token # <<>> THEN <<token>> ELSE <<>>)
                 \o LineTokens(Tail(lineNodes))

\* a faulty variant of ContinuesRun: the next line must lie within the node
ContinuesRunStrict(lineNums, i, maxEnd) ==
    i < Len(lineNums) /\ lineNums[i + 1] <= maxEnd

\* line 311: the run goes on with the next line
ContinuesRun(lineNums, i, maxEnd) ==
    i < Len(lineNums) /\ lineNums[i + 1] <= maxEnd + 1

RECURSIVE MergeLoop(_, _, _, _, _)
\* lines 298-316: the loop over the sorted lines, from its i-th iteration
MergeLoop(ns, lineNums, i, buffer, merged) ==
    IF i > Len(lineNums) THEN merged
    ELSE LET line == lineNums[i]
             lineNodes == LineNodes(ns, line)
             buf == buffer \o LineTokens(lineNodes)
         IN  IF ContinuesRun(lineNums, i, MaxEnd(line, lineNodes))
             THEN MergeLoop(ns, lineNums, i + 1, buf, merged)
             ELSE MergeLoop(ns, lineNums, i + 1, <<>>,
                            Append(merged, Join(buf, <<"\n">>)))

\* lines 279-316: the merged comments, one per run of lines
MergeRuns(ns) == MergeLoop(ns, LineNums(ns), 1, <<>>, <<>>)

\* line 328
TooShort(comment, minLen) == Len(comment) < minLen

\* lines 320-345 for one merged comment: <<>> when it is dropped, else a
\* one-element list of the cleaned comment
FilterComment(merged, minLen) ==
    LET trimmed == TrimSpace(merged)
        cleaned == RemoveFilteredChars(RemoveFunctionNames(trimmed))
        collapsed == CollapseWhitespace(cleaned)
    IN  IF trimmed = <<>> \/ FilteredFirstChar(trimmed) THEN <<>>
        ELSE IF TooShort(cleaned, minLen) THEN <<>>
        ELSE IF CharsCount(collapsed) < LettersThreshold(Len(collapsed)) THEN <<>>
        ELSE IF LicenseMatch(collapsed) THEN <<>>
        ELSE <<collapsed>>

RECURSIVE FilterComments(_, _)
\* lines 318-347
FilterComments(merged, minLen) ==
    IF merged = <<>> THEN <<>>
    ELSE FilterComment(Head(merged), minLen)
             \o FilterComments(Tail(merged), minLen)

\* CommentSentimentAnalysis.mergeComments
mergeComments(ns, minLen) == FilterComments(MergeRuns(ns), minLen)

-----------------------------------------------------------------------------
(* float32 arithmetic on the grid *)

\* x < y, x > y, x >= y of float32: false when an operand is NaN
FLt(x, y) == x # NaN /\ y # NaN /\ x < y
FGt(x, y) == x # NaN /\ y # NaN /\ x > y
FGe(x, y) == x # NaN /\ y # NaN /\ x >= y

\* 0.5*(1-sent.Gap) and 0.5*(1+sent.Gap) of line 211, in score units
LowerEdge(gap) == IF gap = NaN THEN NaN ELSE One - gap
UpperEdge(gap) == IF gap = NaN THEN NaN ELSE One + gap

RECURSIVE GCD(_, _)
GCD(a, b) == IF b = 0 THEN a ELSE GCD(b, a % b)

\* sum / float32(n), as a reduced fraction of score units; a division by
\* zero gives no number of the grid
Quotient(sum, n) ==
    IF n = 0 THEN [num |-> NaN, den |-> 1]
    ELSE LET g == GCD(sum, n) IN [num |-> sum \div g, den |-> n \div g]

-----------------------------------------------------------------------------
(* Maps *)

EmptyMap == [k \in {} |-> <<>>]

\* m[key] = value of a Go map
MapPut(m, key, value) ==
    [k \in DOMAIN m \cup {key} |-> IF k = key THEN value ELSE m[k]]

\* m[key] of a Go map of slices: nil (the empty slice) when the key is absent
MapGet(m, key) == IF key \in DOMAIN m THEN m[key] ELSE <<>>

-----------------------------------------------------------------------------
(* Configure, validate, Initialize: lines 111-141 *)

\* lines 123-127
ValidGap(gap) == IF FLt(gap, 0) \/ FGe(gap, One)
                 THEN DefaultCommentSentimentGap
                 ELSE gap

\* lines 128-132
ValidMinLength(len) == IF len < MinLengthFloor
                       THEN DefaultCommentSentimentCommentMinLength
                       ELSE len

-----------------------------------------------------------------------------
(* Consume: lines 148-160 *)

\* a faulty variant of AppendAll: the day's list is replaced
AppendAllReplacing(dayComments, cs) == cs

\* line 157
AppendAll(dayComments, cs) == dayComments \o cs

-----------------------------------------------------------------------------
(* Finalize: lines 163-223 *)

RECURSIVE FlattenDays(_, _)
\* lines 174-177
FlattenDays(days, byDay) ==
    IF days = <<>> THEN <<>>
    ELSE byDay[Head(days)] \o FlattenDays(Tail(days), byDay)

\* a faulty variant of Kept: the edges of the interval count as confident
KeptAtEdges(w, gap) == FGe(LowerEdge(gap), w) \/ FGe(w, UpperEdge(gap))

\* line 211: the score is outside the neutral interval
Kept(w, gap) == FLt(w, LowerEdge(gap)) \/ FGt(w, UpperEdge(gap))

\* a faulty variant of AdvancePos: only a kept comment consumes a score
AdvancePosIfKept(pos, kept) == IF kept THEN pos + 1 ELSE pos

\* line 215
AdvancePos(pos, kept) == pos + 1

RECURSIVE DayLoop(_, _, _, _, _, _)
\* lines 210-216 for one day, from its j-th comment; pos is the (1-based)
\* index of the next score.  acc is [sum, comments, pos].
DayLoop(dayComments, j, w, gap, pos, acc) ==
    IF j > Len(dayComments) THEN [acc EXCEPT !.pos = pos]
    ELSE LET kept == Kept(w[pos], gap)
         IN  DayLoop(dayComments, j + 1, w, gap, AdvancePos(pos, kept),
                     IF kept
                     THEN [acc EXCEPT !.sum = @ + w[pos],
                                      !.comments = Append(@, dayComments[j])]
                     ELSE acc)

\* a faulty variant of Mean: the sum is not divided
MeanUndivided(sum, n) == Quotient(sum, 1)

\* line 218
Mean(sum, n) == Quotient(sum, n)

\* a faulty variant of DayPresent: every day gets an entry
DayPresentAlways(keptComments) == TRUE

\* line 217
DayPresent(keptComments) == Len(keptComments) > 0

RECURSIVE ReduceDays(_, _, _, _, _, _)
\* lines 206-221: the loop over the sorted days; res is [EmotionsByDay,
\* CommentsByDay]
ReduceDays(days, byDay, w, gap, pos, res) ==
    IF days = <<>> THEN res
    ELSE LET key == Head(days)
             d == DayLoop(byDay[key], 1, w, gap, pos,
                          [sum |-> 0, comments |-> <<>>, pos |-> pos])
         IN  ReduceDays(Tail(days), byDay, w, gap, d.pos,
                 IF DayPresent(d.comments)
                 THEN [EmotionsByDay |->
                           MapPut(res.EmotionsByDay, key,
                                  Mean(d.sum, Len(d.comments))),
                       CommentsByDay |->
                           MapPut(res.CommentsByDay, key, d.comments)]
                 ELSE res)

\* lines 169-173
SortedDays(byDay) == SortedSeq(DOMAIN byDay)

-----------------------------------------------------------------------------
(* Serialize: lines 227-276 *)

\* plumbing.Hash.String over the commits of a day (lines 244-247, 260-263)
HashStrings(commits) == [i \in 1..Len(commits) |-> commits[i]]

\* "%.4f" of a score: the number of ten-thousandths, rounded to nearest
Format4(v) ==
    LET d == v.den * 2 * One
    IN  (2 * v.num * 10000 + d) \div (2 * d)

\* line 248: the line of one day
TextLine(res, d) ==
    [day |-> d,
     value |-> Format4(res.EmotionsByDay[d]),
     commits |-> Join(HashStrings(MapGet(res.commitsByDay, d)), <<",">>),
     comments |-> Join(res.CommentsByDay[d], <<"|">>)]

\* lines 237-251: the lines in ascending order of the day
TextLines(res) ==
    LET days == SortedSeq(DOMAIN res.EmotionsByDay)
    IN  [i \in 1..Len(days) |-> TextLine(res, days[i])]

\* lines 256-269: the protobuf message
BinaryMessage(res) ==
    [d \in DOMAIN res.EmotionsByDay |->
        [Value |-> res.EmotionsByDay[d],
         Comments |-> MapGet(res.CommentsByDay, d),
         Commits |-> HashStrings(MapGet(res.commitsByDay, d))]]

-----------------------------------------------------------------------------
(* Inputs *)

Days == 1..MaxDay
Scores == 0..(2 * One)
GapFacts == {NaN, -1, 0, DefaultCommentSentimentGap, One, One + 1}
MinLengthFacts == {5, 9, MinLengthFloor, DefaultCommentSentimentCommentMinLength}

\* FactCommitsByDay
CommitsFact ==
    [d \in Days |-> IF d = 1 THEN <<<<"a","1">>, <<"b","2">>>> ELSE <<<<"c","3">>>>]

UglyHack == <<"u","g","l","y"," "," ","h","a","c","k">>
NiceParse == <<" ","n","i","c","e"," ","p","a","r","s","e","(",")"," ",
               "c","o","d","e"," ">>
Blank == <<" "," ">>
LovelyParser == <<"l","o","v","e","l","y"," ","c","l","e","a","n"," ",
                  "p","a","r","s","e","r",".">>
BrokenThing == <<"h","o","r","r","i","b","l","e"," ","b","r","o","k","e","n",
                 " ","t","h","i","n","g","!">>
LicenseText == <<"M","I","T"," ","L","i","c","e","n","s","e"," ","a","p",
                 "p","l","i","e","s"," ","h","e","r","e">>

Node(token, start, end) == [Token |-> token, StartLine |-> start, EndLine |-> end]

\* the comment nodes of the commits of the lifecycle
CommitNodes ==
    { <<Node(LovelyParser, 1, 1)>>,
      <<Node(UglyHack, 1, 1), Node(BrokenThing, 3, 3)>>,
      <<Node(LicenseText, 2, 2), Node(Blank, NoPos, NoPos)>> }

\* the comment nodes mergeComments is explored on
MergeTokens == {UglyHack, NiceParse, Blank}
MergeNodes ==
    {Node(t, NoPos, NoPos) : t \in MergeTokens}
    \cup UNION {{Node(t, l, e) : t \in MergeTokens, e \in {NoPos} \cup l..MaxLine}
                : l \in 1..MaxLine}
NodeLists == UNION {[1..n -> MergeNodes] : n \in 0..MaxNodes}

\* the number of elements of all the lists of a map
RECURSIVE TotalLen(_)
TotalLen(m) ==
    IF DOMAIN m = {} THEN 0
    ELSE LET k == CHOOSE x \in DOMAIN m : TRUE
         IN  Len(m[k]) + TotalLen([x \in DOMAIN m \ {k} |-> m[x]])

NoResult == [EmotionsByDay |-> EmptyMap, CommentsByDay |-> EmptyMap,
             commitsByDay |-> EmptyMap]

-----------------------------------------------------------------------------
(* The lifecycle of the item: Configure, Initialize, Consume, Finalize *)

Init ==
    /\ MinCommentLength = 0
    /\ Gap = 0
    /\ commentsByDay = EmptyMap
    /\ commitsByDay = EmptyMap
    /\ phase = "registered"
    /\ texts = <<>>
    /\ weights = <<>>
    /\ result = NoResult
    /\ nodes = <<>>
    /\ mergedComments = <<>>
    /\ filteredComments = <<>>
    /\ binary = FALSE
    /\ writer = "ok"
    /\ written = <<>>
    /\ err = "nil"

\* lines 111-120
Configure ==
    /\ phase \in {"registered", "configured"}
    /\ \E hasGap \in BOOLEAN, hasMin \in BOOLEAN,
          gapFact \in GapFacts, minFact \in MinLengthFacts :
          /\ Gap' = ValidGap(IF hasGap THEN gapFact ELSE Gap)
          /\ MinCommentLength' =
                 ValidMinLength(IF hasMin THEN minFact ELSE MinCommentLength)
    /\ commitsByDay' = CommitsFact
    /\ phase' = "configured"
    /\ UNCHANGED <<commentsByDay, texts, weights, result, nodes,
                   mergedComments, filteredComments, binary, writer, written,
                   err>>

\* lines 137-141
Initialize ==
    /\ phase \in {"registered", "configured"}
    /\ commentsByDay' = EmptyMap
    /\ Gap' = ValidGap(Gap)
    /\ MinCommentLength' = ValidMinLength(MinCommentLength)
    /\ phase' = "initialized"
    /\ UNCHANGED <<commitsByDay, texts, weights, result, nodes,
                   mergedComments, filteredComments, binary, writer, written,
                   err>>

\* lines 148-160
Consume ==
    /\ phase = "initialized"
    /\ \E d \in Days, ns \in CommitNodes :
          LET cs == mergeComments(ns, MinCommentLength)
              dayComments == MapGet(commentsByDay, d)
          IN  /\ TotalLen(commentsByDay) + Len(cs) <= MaxTexts
              /\ commentsByDay' = MapPut(commentsByDay, d, AppendAll(dayComments, cs))
    /\ UNCHANGED <<MinCommentLength, Gap, commitsByDay, phase, texts, weights,
                   result, nodes, mergedComments, filteredComments, binary,
                   writer, written, err>>

\* lines 163-223, the scorer returning one score per text
Finalize ==
    /\ phase = "initialized"
    /\ LET days == SortedDays(commentsByDay)
           flat == FlattenDays(days, commentsByDay)
       IN  /\ texts' = flat
           /\ \E w \in [1..Len(flat) -> Scores] :
                 /\ weights' = w
                 /\ result' =
                        LET res == ReduceDays(days, commentsByDay, w, Gap, 1,
                                       [EmotionsByDay |-> EmptyMap,
                                        CommentsByDay |-> EmptyMap])
                        IN  [EmotionsByDay |-> res.EmotionsByDay,
                             CommentsByDay |-> res.CommentsByDay,
                             commitsByDay |-> commitsByDay]
    /\ phase' = "finalized"
    /\ UNCHANGED <<MinCommentLength, Gap, commentsByDay, commitsByDay,
                   nodes, mergedComments, filteredComments, binary,
                   writer, written, err>>

\* lines 178-181, 203-205: the session or the evaluation fails
FinalizePanics ==
    /\ phase = "initialized"
    /\ texts' = FlattenDays(SortedDays(commentsByDay), commentsByDay)
    /\ phase' = "panicked"
    /\ UNCHANGED <<MinCommentLength, Gap, commentsByDay, commitsByDay,
                   weights, result, nodes, mergedComments,
                   filteredComments, binary, writer, written, err>>

Next == Configure \/ Initialize \/ Consume \/ Finalize \/ FinalizePanics

Spec == Init /\ [][Next]_vars

-----------------------------------------------------------------------------
(* mergeComments on its own: any list of comment nodes, a validated length *)

InitMerge ==
    /\ MinCommentLength \in {MinLengthFloor, DefaultCommentSentimentCommentMinLength}
    /\ Gap = DefaultCommentSentimentGap
    /\ commentsByDay = EmptyMap
    /\ commitsByDay = EmptyMap
    /\ phase = "merging"
    /\ texts = <<>>
    /\ weights = <<>>
    /\ result = NoResult
    /\ nodes \in NodeLists
    /\ mergedComments = <<>>
    /\ filteredComments = <<>>
    /\ binary = FALSE
    /\ writer = "ok"
    /\ written = <<>>
    /\ err = "nil"

\* lines 278-348
MergeCommentsCall ==
    /\ phase = "merging"
    /\ mergedComments' = MergeRuns(nodes)
    /\ filteredComments' = mergeComments(nodes, MinCommentLength)
    /\ phase' = "merged"
    /\ UNCHANGED <<MinCommentLength, Gap, commentsByDay, commitsByDay,
                   texts, weights, result, nodes, binary, writer,
                   written, err>>

NextMerge == MergeCommentsCall

SpecMerge == InitMerge /\ [][NextMerge]_vars

-----------------------------------------------------------------------------
(* Serialize on its own: any result Finalize can return *)

RECURSIVE SumSeq(_)
SumSeq(ws) == IF ws = <<>> THEN 0 ELSE Head(ws) + SumSeq(Tail(ws))

\* the kept comments of a day and their mean: a kept score is never 1/2
DayLists == {<<LovelyParser>>, <<LovelyParser, BrokenThing>>}
DayEntries ==
    UNION {{[comments |-> cs, value |-> Quotient(SumSeq(ws), Len(ws))]
               : ws \in [1..Len(cs) -> Scores \ {One}]} : cs \in DayLists}
Results ==
    UNION {{[EmotionsByDay |-> [d \in D |-> e[d].value],
             CommentsByDay |-> [d \in D |-> e[d].comments],
             commitsByDay |-> c]
               : e \in [D -> DayEntries], c \in {EmptyMap, CommitsFact}}
           : D \in SUBSET Days}

InitSerialize ==
    /\ MinCommentLength = DefaultCommentSentimentCommentMinLength
    /\ Gap = 0
    /\ commentsByDay = EmptyMap
    /\ commitsByDay = EmptyMap
    /\ phase = "finalized"
    /\ texts = <<>>
    /\ weights = <<>>
    /\ result \in Results
    /\ nodes = <<>>
    /\ mergedComments = <<>>
    /\ filteredComments = <<>>
    /\ binary = FALSE
    /\ writer = "ok"
    /\ written = <<>>
    /\ err = "nil"

\* lines 232-233, 236-252: binary is false; the result of Fprintf is dropped
SerializeText ==
    /\ phase = "finalized"
    /\ binary' = FALSE
    /\ \E wr \in {"ok", "failing"} :
          /\ writer' = wr
          /\ written' = IF wr = "ok" THEN TextLines(result) ELSE <<>>
    /\ err' = "nil"
    /\ phase' = "serialized"
    /\ UNCHANGED <<MinCommentLength, Gap, commentsByDay, commitsByDay,
                   texts, weights, result, nodes, mergedComments,
                   filteredComments>>

\* lines 229-231, 254-276: binary is true; proto.Marshal may fail, the result
\* of writer.Write is dropped
SerializeBinary ==
    /\ phase = "finalized"
    /\ binary' = TRUE
    /\ \E wr \in {"ok", "failing"}, marshalled \in BOOLEAN :
          /\ writer' = wr
          /\ written' = IF marshalled /\ wr = "ok"
                        THEN <<BinaryMessage(result)>>
                        ELSE <<>>
          /\ err' = IF marshalled THEN "nil" ELSE "marshal"
    /\ phase' = "serialized"
    /\ UNCHANGED <<MinCommentLength, Gap, commentsByDay, commitsByDay,
                   texts, weights, result, nodes, mergedComments,
                   filteredComments>>

NextSerialize == SerializeText \/ SerializeBinary

SpecSerialize == InitSerialize /\ [][NextSerialize]_vars

-----------------------------------------------------------------------------
(* Properties.  What they say is stated over the accumulated comments, the  *)
(* returned scores and the result, not over the operators of Finalize.     *)

AccDays == DOMAIN commentsByDay

\* the number of comments accumulated for the days before d
Offset(d) == TotalLen([x \in {y \in AccDays : y < d} |-> commentsByDay[x]])

\* the score returned for the j-th comment of day d
ScoreOf(d, j) == weights[Offset(d) + j]

Positions(d) == 1..Len(commentsByDay[d])

GapIsValid == Gap # NaN /\ 0 <= Gap /\ Gap < One

\* strictly between 0.5*(1-gap) and 0.5*(1+gap); equal to one of the two
StrictlyInside(w) == One - Gap < w /\ w < One + Gap
AtEdge(w) == w = One - Gap \/ w = One + Gap

\* below 0.5*(1-gap) or above 0.5*(1+gap)
Outside(w) == Gap # NaN /\ (w < One - Gap \/ w > One + Gap)

\* the comments of day d at the positions J, in their accumulation order
Picked(d, J) ==
    LET idx == SortedSeq(J)
    IN  [i \in 1..Len(idx) |-> commentsByDay[d][idx[i]]]

RECURSIVE SumOver(_, _)
\* the sum of the scores of day d at the positions J
SumOver(d, J) ==
    IF J = {} THEN 0
    ELSE LET j == CHOOSE x \in J : TRUE
         IN  ScoreOf(d, j) + SumOver(d, J \ {j})

IsPrefix(s, t) == Len(s) <= Len(t) /\ SubSeq(t, 1, Len(s)) = s

AfterInitialize == phase \in {"initialized", "finalized", "panicked"}

\* C1, as stated: with a valid gap, the comments counted in a day's aggregate
\* and list are those whose score is not strictly inside the interval; a
\* score equal to an edge is retained.
C1_EdgeRetained ==
    (phase = "finalized" /\ GapIsValid) =>
        \A d \in AccDays :
            LET J == {j \in Positions(d) : ~StrictlyInside(ScoreOf(d, j))}
            IN  /\ Len(MapGet(result.CommentsByDay, d)) = Cardinality(J)
                /\ J # {} =>
                      /\ d \in DOMAIN result.EmotionsByDay
                      /\ result.EmotionsByDay[d]
                             = Quotient(SumOver(d, J), Cardinality(J))

\* C1, amended: with a valid gap, a comment whose score is strictly inside
\* the interval or equal to one of its edges is excluded from the day's
\* aggregate and list; the comments counted are those with a score below
\* 0.5*(1-gap) or above 0.5*(1+gap).
C1_EdgeExcluded ==
    (phase = "finalized" /\ GapIsValid) =>
        \A d \in AccDays :
            LET J == {j \in Positions(d) :
                         /\ ~StrictlyInside(ScoreOf(d, j))
                         /\ ~AtEdge(ScoreOf(d, j))}
            IN  /\ Len(MapGet(result.CommentsByDay, d)) = Cardinality(J)
                /\ J # {} =>
                      /\ d \in DOMAIN result.EmotionsByDay
                      /\ result.EmotionsByDay[d]
                             = Quotient(SumOver(d, J), Cardinality(J))

\* a finalized run with a valid gap where one comment scored at an edge,
\* one strictly inside and one outside
C1_Witness ==
    /\ phase = "finalized"
    /\ GapIsValid
    /\ \E d \in AccDays : \E j \in Positions(d) : AtEdge(ScoreOf(d, j))
    /\ \E d \in AccDays : \E j \in Positions(d) : StrictlyInside(ScoreOf(d, j))
    /\ \E d \in AccDays : \E j \in Positions(d) : Outside(ScoreOf(d, j))

\* C2: the scorer is handed the comments of the days in ascending order of
\* the day, each day's in accumulation order, and the j-th comment of day d
\* is judged by the score at index Offset(d) + j.
C2_PositionalScores ==
    /\ phase \in {"finalized", "panicked"} =>
          /\ Len(texts) = TotalLen(commentsByDay)
          /\ \A d \in AccDays : \A j \in Positions(d) :
                texts[Offset(d) + j] = commentsByDay[d][j]
    /\ phase = "finalized" =>
          /\ Len(weights) = Len(texts)
          /\ \A d \in AccDays :
                LET J == {j \in Positions(d) : Kept(weights[Offset(d) + j], Gap)}
                IN  /\ MapGet(result.CommentsByDay, d) = Picked(d, J)
                    /\ d \in DOMAIN result.EmotionsByDay =>
                          result.EmotionsByDay[d].num * Cardinality(J)
                              = SumOver(d, J) * result.EmotionsByDay[d].den

\* a finalized run whose days were not presented in ascending order, with a
\* discarded comment before a retained one and a retained comment on the
\* second day
C2_Witness ==
    /\ phase = "finalized"
    /\ \E d1 \in AccDays, d2 \in AccDays :
          /\ d1 < d2
          /\ Len(commentsByDay[d1]) >= 2
          /\ commentsByDay[d1][1] # commentsByDay[d1][2]
          /\ ~Kept(ScoreOf(d1, 1), Gap)
          /\ Kept(ScoreOf(d1, 2), Gap)
          /\ Len(commentsByDay[d2]) >= 1
          /\ Kept(ScoreOf(d2, 1), Gap)
          /\ ScoreOf(d2, 1) # ScoreOf(d1, 2)

\* C3: the two maps of the result have the same days, every day present has
\* a retained comment, and a day is present exactly when one of its comments
\* scored outside the deadzone.
C3_PresentDays ==
    phase = "finalized" =>
        /\ DOMAIN result.EmotionsByDay = DOMAIN result.CommentsByDay
        /\ \A d \in DOMAIN result.CommentsByDay : result.CommentsByDay[d] # <<>>
        /\ \A d \in Days :
              d \in DOMAIN result.EmotionsByDay
                  <=> /\ d \in AccDays
                      /\ \E j \in Positions(d) : Outside(ScoreOf(d, j))

\* a finalized run with a day present and a day whose comments all scored
\* inside the deadzone
C3_Witness ==
    /\ phase = "finalized"
    /\ DOMAIN result.EmotionsByDay # {}
    /\ \E d \in AccDays :
          /\ commentsByDay[d] # <<>>
          /\ d \notin DOMAIN result.EmotionsByDay
          /\ \A j \in Positions(d) : ScoreOf(d, j) = One

\* C4, as stated: every accumulated or reported comment is at least
\* MinCommentLength long.
C4_MinLength ==
    AfterInitialize =>
        /\ \A d \in AccDays : \A j \in Positions(d) :
              Len(commentsByDay[d][j]) >= MinCommentLength
        /\ \A d \in DOMAIN result.CommentsByDay :
              \A j \in 1..Len(result.CommentsByDay[d]) :
                  Len(result.CommentsByDay[d][j]) >= MinCommentLength

\* C6, as stated: after Initialize the gap is in [0, 1) and the minimum
\* length is at least 10.
C6_ValidConfiguration ==
    AfterInitialize =>
        /\ Gap # NaN
        /\ 0 <= Gap
        /\ Gap < One
        /\ MinCommentLength >= MinLengthFloor

\* C7, as stated: when Configure was not called (the commits of the days
\* were never set), the gap after Initialize is the default 0.5.
C7_DefaultGap ==
    (AfterInitialize /\ commitsByDay = EmptyMap) =>
        Gap = DefaultCommentSentimentGap

\* C9: the aggregate of a day present in the result is the sum of the
\* scores of its comments outside the deadzone divided by their number, and
\* its list is exactly these comments in accumulation order; scores 0, 1/2
\* and 1 with gap 1/2 give the aggregate 1/2 and the first and third comment.
C9_MeanOfRetained ==
    phase = "finalized" =>
        \A d \in DOMAIN result.EmotionsByDay :
            LET J == {j \in Positions(d) : Outside(ScoreOf(d, j))}
            IN  /\ result.EmotionsByDay[d]
                       = Quotient(SumOver(d, J), Cardinality(J))
                /\ result.CommentsByDay[d] = Picked(d, J)
                /\ (/\ Gap = DefaultCommentSentimentGap
                    /\ Len(commentsByDay[d]) = 3
                    /\ ScoreOf(d, 1) = 0
                    /\ ScoreOf(d, 2) = One
                    /\ ScoreOf(d, 3) = 2 * One)
                   => /\ result.EmotionsByDay[d] = [num |-> One, den |-> 1]
                      /\ result.CommentsByDay[d]
                             = <<commentsByDay[d][1], commentsByDay[d][3]>>

\* a finalized run with gap 1/2 and a day whose three comments scored 0, 1/2
\* and 1
C9_Witness ==
    /\ phase = "finalized"
    /\ Gap = DefaultCommentSentimentGap
    /\ \E d \in DOMAIN result.EmotionsByDay :
          /\ Len(commentsByDay[d]) = 3
          /\ ScoreOf(d, 1) = 0
          /\ ScoreOf(d, 2) = One
          /\ ScoreOf(d, 3) = 2 * One
          /\ commentsByDay[d][1] # commentsByDay[d][3]

\* C10: between Initialize and Finalize a step either appends the filtered
\* comments of one commit to one day's list (creating it when absent) and
\* leaves the other days, the configuration, the commits and the scores
\* alone, or is the finalization, which leaves the lists alone; every day's
\* earlier list is a prefix of its later list.
C10_ConsumeAppends ==
    [][phase = "initialized" =>
          /\ \A d \in AccDays :
                /\ d \in DOMAIN commentsByDay'
                /\ IsPrefix(commentsByDay[d], commentsByDay'[d])
          /\ phase' = "initialized" =>
                /\ \E d \in Days, ns \in CommitNodes :
                      /\ DOMAIN commentsByDay' = AccDays \cup {d}
                      /\ commentsByDay'[d]
                             = MapGet(commentsByDay, d)
                                   \o mergeComments(ns, MinCommentLength)
                      /\ \A e \in AccDays \ {d} :
                            commentsByDay'[e] = commentsByDay[e]
                /\ UNCHANGED <<Gap, MinCommentLength, commitsByDay, texts,
                               weights, result>>
      ]_vars

\* a run in which a day's list was extended by a later commit while another
\* day holds comments too
C10_Witness ==
    /\ phase = "initialized"
    /\ \E d1 \in AccDays, d2 \in AccDays :
          /\ d1 # d2
          /\ Len(commentsByDay[d1]) >= 2
          /\ commentsByDay[d1][1] # commentsByDay[d1][2]
          /\ commentsByDay[d2] # <<>>

\* C5, as stated: when the writer fails, Serialize returns an error, in
\* both encodings, and the result is left as it was.
C5_WriteErrorReturned ==
    [][(phase = "finalized" /\ phase' = "serialized" /\ writer' = "failing") =>
          /\ err' # "nil"
          /\ result' = result
      ]_vars

-----------------------------------------------------------------------------
(* The merge step, stated over the nodes *)

StartLines(ns) == {ns[i].StartLine : i \in 1..Len(ns)} \ {NoPos}

MaxOf(S) == CHOOSE x \in S : \A y \in S : y <= x

\* the largest end line among the nodes starting at line, line itself when
\* none has an end position
MaxEndAt(ns, line) ==
    MaxOf({line} \cup {ns[i].EndLine :
                           i \in {k \in 1..Len(ns) : /\ ns[k].StartLine = line
                                                     /\ ns[k].EndLine # NoPos}})

\* line opens a run: it is the first start line, or it lies beyond
\* maxEnd + 1 of the start line before it
OpensRun(ns, line) ==
    LET before == {x \in StartLines(ns) : x < line}
    IN  before = {} \/ line > MaxEndAt(ns, MaxOf(before)) + 1

\* the start line which opens the run of line
RunOf(ns, line) ==
    MaxOf({x \in StartLines(ns) : x <= line /\ OpensRun(ns, x)})

RECURSIVE InLineOrder(_, _)
\* the node indices I by start line and, within a line, by position
InLineOrder(ns, I) ==
    IF I = {} THEN <<>>
    ELSE LET m == CHOOSE i \in I : \A k \in I :
                      \/ ns[i].StartLine < ns[k].StartLine
                      \/ ns[i].StartLine = ns[k].StartLine /\ i <= k
         IN  <<m>> \o InLineOrder(ns, I \ {m})

\* the run opened by line as one string
RunText(ns, line) ==
    LET I == {i \in 1..Len(ns) : /\ ns[i].StartLine # NoPos
                                 /\ RunOf(ns, ns[i].StartLine) = line}
        order == InLineOrder(ns, I)
        tokens == [k \in 1..Len(order) |-> TrimSpace(ns[order[k]].Token)]
    IN  Join(SelectSeq(tokens, LAMBDA t : t # <<>>), <<"\n">>)

=============================================================================
